---------------------------- MODULE Spec2Model ----------------------------
(***************************************************************************)
(* Road-accident dashboards (nekkunj/Visualization2): the data cleaning,   *)
(* filter pipeline, aggregation and chart adapters of the pages, as state  *)
(* machines over a session DataFrame.                                      *)
(*                                                                         *)
(* Representation.  A DataFrame is a sequence of rows; a row is a function *)
(* from column names to cells.  The year column AN holds integers.  Every  *)
(* other cell is a string: a numeric cell (an int64/float64 column of      *)
(* pandas) is written as its decimal numeral ("0", "11"), pandas' missing  *)
(* value is NaN, Python's None is None and the empty string is Blank.      *)
(***************************************************************************)
EXTENDS Integers, Sequences, FiniteSets, TLC

VARIABLES
    df,        \* the page's session DataFrame (module-level df / load_data())
    columns,   \* header labels of the frame, as read or as cleaned
    call,      \* the handler that ran last
    args,      \* the inputs of that call
    out        \* what that call returned or rendered

vars == <<df, columns, call, args, out>>

\* The largest number of rows of a DataFrame the model enumerates.
MaxRows == 2

NaN == "NaN"
None == "None"
Blank == ""
Idle == "-"

(***************************************************************************)
(* pandas / Python helpers                                                 *)
(***************************************************************************)

\* Series.map(dict): a value that is no key becomes NaN.
Map(v, mapping) == IF v \in DOMAIN mapping THEN mapping[v] ELSE NaN

\* Series.replace(dict): a value that is no key is kept.
Replace(v, mapping) == IF v \in DOMAIN mapping THEN mapping[v] ELSE v

\* Python truthiness of a widget value: None, "" and the number 0 are falsy.
Truthy(v) == v \notin {None, Blank, "0"}

\* Series.dropna().unique(), as a set.
Unique(d, col) == {d[i][col] : i \in 1..Len(d)} \ {NaN}

Range(s) == {s[i] : i \in 1..Len(s)}

\* All frames of 1..n rows drawn from a set of rows.
Frames(rows, n) == UNION {[1..k -> rows] : k \in 1..n}

(***************************************************************************)
(* dashboard.py load_data / pages/dashboard.py module level: cleaning      *)
(***************************************************************************)

gravite_mapping ==
    ("Dommages matériels seulement" :> "Matériels") @@
    ("Dommages matériels inférieurs au seuil de rapportage" :> "Mineurs") @@
    ("Léger" :> "Léger") @@
    ("Mortel ou grave" :> "Grave")

weather_mapping ==
    ("11" :> "Clear") @@ ("12" :> "Overcast") @@ ("13" :> "Fog/Mist") @@
    ("14" :> "Rain/Drizzle") @@ ("15" :> "Heavy Rain") @@ ("16" :> "Strong Wind") @@
    ("17" :> "Snow/Hail") @@ ("18" :> "Blowing Snow/Storm") @@
    ("19" :> "Freezing Rain") @@ ("99" :> "Other")

surface_mapping ==
    ("11" :> "Dry") @@ ("12" :> "Wet") @@ ("13" :> "Aquaplaning") @@
    ("14" :> "Sand/Gravel") @@ ("15" :> "Slush/Snow") @@ ("16" :> "Snow-covered") @@
    ("17" :> "Hard-packed Snow") @@ ("18" :> "Icy") @@ ("19" :> "Muddy") @@
    ("20" :> "Oily") @@ ("99" :> "Other")

lighting_mapping ==
    ("1" :> "Daylight - Clear Visibility") @@ ("2" :> "Daylight - Low Visibility") @@
    ("3" :> "Night - Road Illuminated") @@ ("4" :> "Night - Not Illuminated")

env_mapping ==
    ("1" :> "School Zone") @@ ("2" :> "Residential") @@
    ("3" :> "Business / Commercial") @@ ("4" :> "Industrial") @@ ("5" :> "Rural") @@
    ("6" :> "Forestry") @@ ("7" :> "Recreational") @@ ("9" :> "Other") @@
    ("0" :> "Not Specified")

\* A header label is a sequence of characters.
IsSpace(c) == c \in {" ", "\t"}

RECURSIVE LStrip(_)
LStrip(s) == IF s # <<>> /\ IsSpace(Head(s)) THEN LStrip(Tail(s)) ELSE s

RECURSIVE RStrip(_)
RStrip(s) ==
    IF s # <<>> /\ IsSpace(s[Len(s)]) THEN RStrip(SubSeq(s, 1, Len(s) - 1)) ELSE s

\* str.strip()
Strip(s) == LStrip(RStrip(s))

\* str.replace(c, '')
Remove(s, c) == SelectSeq(s, LAMBDA x : x # c)

\* df.columns.str.strip().str.replace('"', ''), then rename(lambda x: x.strip())
CleanColumnName(name) == Strip(Remove(Strip(name), "\""))

\* The cleaning steps applied to one row of the frame.
CleanRow(r) ==
    [c \in DOMAIN r \cup {"Lighting_Label", "Environment_Label"} |->
        CASE c = "GRAVITE" -> Replace(r["GRAVITE"], gravite_mapping)
          [] c = "CD_COND_METEO" -> Map(r["CD_COND_METEO"], weather_mapping)
          [] c = "CD_ETAT_SURFC" -> Map(r["CD_ETAT_SURFC"], surface_mapping)
          [] c = "Lighting_Label" -> Map(r["CD_ECLRM"], lighting_mapping)
          [] c = "Environment_Label" -> Map(r["CD_ENVRN_ACCDN"], env_mapping)
          [] OTHER -> r[c]]

\* The cleaning steps of load_data applied to a frame.
load_data(raw) == [i \in 1..Len(raw) |-> CleanRow(raw[i])]

(***************************************************************************)
(* The rows of the source file the dashboards' model enumerates: a base    *)
(* row and every row that differs from it in one column.                   *)
(***************************************************************************)

BaseRow ==
    [AN |-> 2018, GRAVITE |-> "Mortel ou grave", CD_COND_METEO |-> "11",
     CD_ETAT_SURFC |-> "11", CD_ECLRM |-> "1", CD_ENVRN_ACCDN |-> "1",
     CD_ASPCT_ROUTE |-> "11", CD_ZON_TRAVX_ROUTR |-> "1"]

RawValues ==
    [AN |-> {2018, 2019},
     GRAVITE |-> {"Mortel ou grave", "Léger"},
     CD_COND_METEO |-> {"11", "12", "98"},
     CD_ETAT_SURFC |-> {"11", "12"},
     CD_ECLRM |-> {"1"},
     CD_ENVRN_ACCDN |-> {"1", "0"},
     CD_ASPCT_ROUTE |-> {"11", "0"},
     CD_ZON_TRAVX_ROUTR |-> {"1"}]

RawRows ==
    {[BaseRow EXCEPT ![c] = v] : <<c, v>> \in
        UNION {{<<c, v>> : v \in RawValues[c]} : c \in DOMAIN BaseRow}}

(***************************************************************************)
(* The filter pipeline: pages/dashboard.py update_graph and dashboard.py   *)
(* show_dashboard                                                          *)
(***************************************************************************)

\* df[(df['AN'] >= lo) & (df['AN'] <= hi)]
YearFilterFromDf(d, lo, hi) == SelectSeq(df, LAMBDA r : r["AN"] >= lo /\ r["AN"] <= hi)

YearFilter(d, lo, hi) == SelectSeq(d, LAMBDA r : r["AN"] >= lo /\ r["AN"] <= hi)

\* if val: d = d[d[col] == val]
FilterEqFromDf(d, col, val) ==
    IF Truthy(val) THEN SelectSeq(df, LAMBDA r : r[col] = val) ELSE d

FilterEq(d, col, val) ==
    IF Truthy(val) THEN SelectSeq(d, LAMBDA r : r[col] = val) ELSE d

\* The column each filter input of update_graph constrains.
FilterColumn ==
    [gravite |-> "GRAVITE", meteo |-> "CD_COND_METEO", surface |-> "CD_ETAT_SURFC",
     env |-> "Environment_Label", road |-> "CD_ASPCT_ROUTE",
     const |-> "CD_ZON_TRAVX_ROUTR"]

Dims == DOMAIN FilterColumn

\* One line of the pipeline: the year bound, or the filter of one input.
Step(d, s, a) ==
    IF s = "annee_range" THEN YearFilter(d, a.annee_range[1], a.annee_range[2])
    ELSE FilterEq(d, FilterColumn[s], a[s])

RECURSIVE ApplySteps(_, _, _)
ApplySteps(d, order, a) ==
    IF order = <<>> THEN d ELSE ApplySteps(Step(d, Head(order), a), Tail(order), a)

\* The order in which update_graph applies its filters.
GraphOrder == <<"annee_range", "gravite", "meteo", "surface", "env", "road", "const">>

\* update_graph, lines 142-148: the frame the figure is drawn from.
update_graph(a) == ApplySteps(df, GraphOrder, a)

\* The year range the slider offers: min..max of the AN column.
YearRanges ==
    LET ys == {df[i]["AN"] : i \in 1..Len(df)}
    IN  {<<lo, hi>> \in ys \X ys : lo <= hi}

\* Each handler is a function of the loaded frame and its inputs alone, so every call
\* is taken from the loaded state.
\* The values update_graph can receive for a dropdown: nothing, or a value that an
\* option list has offered.
DashValues(dim) == {None} \cup Unique(df, FilterColumn[dim])

DashArgs ==
    {a \in [gravite : DashValues("gravite"), meteo : DashValues("meteo"),
            surface : DashValues("surface"), env : DashValues("env"),
            road : DashValues("road"), const : DashValues("const"),
            annee_range : YearRanges] : TRUE}

UpdateGraph ==
    /\ call = "load"
    /\ \E a \in DashArgs :
          /\ call' = "update_graph"
          /\ args' = a
          /\ out' = update_graph(a)
    /\ UNCHANGED <<df, columns>>

\* The filters show_dashboard offers in each view.
DashboardOptions ==
    {"Weather", "Road Surface", "Lighting", "Environment", "Road Defects",
     "Construction Zones", "Weather vs Surface Heatmap", "Before / After COVID-19"}

ViewFilters(option) ==
    CASE option = "Weather" -> <<"meteo">>
      [] option = "Road Surface" -> <<"surface">>
      [] option = "Environment" -> <<"env">>
      [] option = "Road Defects" -> <<"road">>
      [] option = "Construction Zones" -> <<"const">>
      [] option = "Weather vs Surface Heatmap" -> <<"meteo", "surface">>
      [] OTHER -> <<>>

\* A selectbox: "" or a value of the column of the frame filtered so far.
SelectboxOptions(d, dim) == {Blank} \cup Unique(d, FilterColumn[dim])

\* The widget values a run of show_dashboard can read: the severity is chosen among
\* the values of the whole frame, each dimension value among the options computed from
\* the frame as filtered by the widgets before it.
RECURSIVE StChoices(_, _, _)
StChoices(d, dims, a) ==
    IF dims = <<>> THEN {a}
    ELSE UNION {StChoices(FilterEq(d, FilterColumn[Head(dims)], v), Tail(dims),
                          [a EXCEPT ![Head(dims)] = v]) :
                v \in SelectboxOptions(d, Head(dims))}

StArgs ==
    UNION {UNION {UNION {
        StChoices(FilterEq(YearFilter(df, yr[1], yr[2]), "GRAVITE", g),
                  ViewFilters(option),
                  [dashboard_option |-> option, annee_range |-> yr, gravite |-> g,
                   meteo |-> Blank, surface |-> Blank, env |-> Blank, road |-> Blank,
                   const |-> Blank]) :
        g \in SelectboxOptions(df, "gravite")} :
        yr \in YearRanges} : option \in DashboardOptions}

\* show_dashboard, lines 53-80: filtered_df.
show_dashboard(a) ==
    ApplySteps(df, <<"annee_range", "gravite">> \o ViewFilters(a.dashboard_option), a)

ShowDashboard ==
    /\ call = "load"
    /\ \E a \in StArgs :
          /\ call' = "show_dashboard"
          /\ args' = a
          /\ out' = show_dashboard(a)
    /\ UNCHANGED <<df, columns>>

\* [v for v in column.dropna().unique()]: the values of the column in the order in
\* which they are first met.
RECURSIVE UniqueList(_, _)
UniqueList(d, col) ==
    IF d = <<>> THEN <<>>
    ELSE LET front == UniqueList(SubSeq(d, 1, Len(d) - 1), col)
             v == d[Len(d)][col]
         IN  IF v = NaN \/ v \in Range(front) THEN front ELSE Append(front, v)

\* The dimensions whose dropdown options update_filter_options computes.
OptionDims == {"meteo", "surface", "env", "road", "const"}

\* update_filter_options, lines 116-127
update_filter_options(annee_range, gravite) ==
    LET filtered_df == FilterEq(YearFilter(df, annee_range[1], annee_range[2]),
                                "GRAVITE", gravite)
    IN  [dim \in OptionDims |-> UniqueList(filtered_df, FilterColumn[dim])]

UpdateFilterOptions ==
    /\ call = "load"
    /\ \E annee_range \in YearRanges, gravite \in DashValues("gravite") :
          /\ call' = "update_filter_options"
          /\ args' = [annee_range |-> annee_range, gravite |-> gravite]
          /\ out' = update_filter_options(annee_range, gravite)
    /\ UNCHANGED <<df, columns>>

InitFilter ==
    /\ df \in {load_data(raw) : raw \in Frames(RawRows, MaxRows)}
    /\ columns = Idle
    /\ call = "load"
    /\ args = Idle
    /\ out = Idle

NextFilter == UpdateGraph \/ ShowDashboard \/ UpdateFilterOptions

SpecFilter == InitFilter /\ [][NextFilter]_vars


(***************************************************************************)
(* Claims on the filter pipeline (SpecFilter)                              *)
(***************************************************************************)

Filtered == call \in {"update_graph", "show_dashboard"}

\* The filter lines the call ran, in the order it ran them.
CallOrder ==
    IF call = "update_graph" THEN GraphOrder
    ELSE <<"annee_range", "gravite">> \o ViewFilters(args.dashboard_option)

\* The handler of the call, on other inputs.
Rerun(a) == IF call = "update_graph" THEN update_graph(a) ELSE show_dashboard(a)

\* The user has supplied a value for the dimension.
Supplied(a, dim) == a[dim] \notin {None, Blank}

\* The record satisfies the year bound and every supplied equality constraint.
Matches(r, a) ==
    /\ r["AN"] >= a.annee_range[1]
    /\ r["AN"] <= a.annee_range[2]
    /\ \A dim \in Dims : Supplied(a, dim) => r[FilterColumn[dim]] = a[dim]

\* C1: the pipeline returns exactly the records whose year is in [lo, hi] and whose
\* value equals the selected value in every supplied dimension.
C1_ExactFilter ==
    Filtered => out = SelectSeq(df, LAMBDA r : Matches(r, args))

Without(order, s) == SelectSeq(order, LAMBDA x : x # s)

Reverse(s) == [i \in 1..Len(s) |-> s[Len(s) + 1 - i]]

\* The order with the step at position i moved to position j.
Moved(order, i, j) ==
    LET rest == Without(order, order[i])
    IN  SubSeq(rest, 1, j - 1) \o <<order[i]>> \o SubSeq(rest, j, Len(rest))

\* C2: filters are commutative and idempotent: any two filter lines (equality filters
\* and the year bound) give the same frame in either order; the whole pipeline gives
\* the same frame in reverse order and with any two neighbouring lines exchanged; and
\* a line applied twice, or the pipeline applied again to its result, changes nothing.
C2_CommutativeIdempotent ==
    Filtered =>
        /\ \A i, j \in 1..Len(CallOrder) :
              i < j =>
                  Step(Step(df, CallOrder[i], args), CallOrder[j], args)
                      = Step(Step(df, CallOrder[j], args), CallOrder[i], args)
        /\ ApplySteps(df, Reverse(CallOrder), args) = out
        /\ \A i \in 1..Len(CallOrder) - 1 :
              ApplySteps(df, Moved(CallOrder, i, i + 1), args) = out
        /\ \A s \in Range(CallOrder) :
              /\ Step(Step(df, s, args), s, args) = Step(df, s, args)
              /\ Step(out, s, args) = out
        /\ ApplySteps(out, CallOrder, args) = out

\* C2's case: update_graph ran with the year bound and two equality filters each
\* removing a record.
C2_Witness ==
    /\ call = "update_graph"
    /\ Len(YearFilter(df, args.annee_range[1], args.annee_range[2])) < Len(df)
    /\ \E s \in Dims : Truthy(args[s]) /\ Len(Step(df, s, args)) < Len(df)
    /\ Len(out) < Len(df)

\* C3: the filtered record count is non-increasing as filters are added: one more
\* (dimension, value) selection, or a narrower year interval, never gives more records.
C3_CountMonotone ==
    Filtered =>
        /\ \A dim \in Dims : \A v \in DashValues(dim) :
              ~Supplied(args, dim) =>
                  Len(Rerun([args EXCEPT ![dim] = v])) <= Len(out)
        /\ \A yr \in YearRanges :
              (yr[1] >= args.annee_range[1] /\ yr[2] <= args.annee_range[2]) =>
                  Len(Rerun([args EXCEPT !.annee_range = yr])) <= Len(out)

\* C3's case: a filter is already applied, and one more selection removes a record.
C3_Witness ==
    /\ call = "update_graph"
    /\ \E d0 \in Dims : Truthy(args[d0])
    /\ \E dim \in Dims : \E v \in DashValues(dim) :
          /\ ~Supplied(args, dim)
          /\ Len(update_graph([args EXCEPT ![dim] = v])) < Len(out)

\* C4: a dimension with no supplied value leaves the result unchanged (the result is
\* that of the pipeline without its line), and every supplied value, any value of the
\* column, constrains the result.
C4_UnsuppliedNoOpSuppliedConstrains ==
    Filtered =>
        \A dim \in Range(CallOrder) \ {"annee_range"} :
            IF Supplied(args, dim)
            THEN \A i \in 1..Len(out) : out[i][FilterColumn[dim]] = args[dim]
            ELSE out = ApplySteps(df, Without(CallOrder, dim), args)


(***************************************************************************)
(* Cleaning, and cleaning again (dashboard.py load_data, lines 13-36, and  *)
(* the same lines of pages/dashboard.py)                                   *)
(***************************************************************************)

\* Rows of the source file for the cleaning: RawRows and more severity and lighting
\* values.
CleanRawRows ==
    RawRows \cup
    {[BaseRow EXCEPT !["GRAVITE"] = v] :
        v \in {"Dommages matériels seulement",
               "Dommages matériels inférieurs au seuil de rapportage", NaN}} \cup
    {[BaseRow EXCEPT !["CD_ECLRM"] = "3"]}

\* Header labels as they may stand in the file: a column name with incidental
\* whitespace and quote characters around it.
Decorations == {<<>>, <<" ">>, <<"\"">>, <<" ", "\"">>, <<"\"", " ">>, <<"\t">>}

HeaderLabels ==
    {pre \o <<"A", "N">> \o post : <<pre, post>> \in Decorations \X Decorations}

\* Lines 13-36 applied to the frame as it stands.
LoadData ==
    /\ call = "read_csv"
    /\ df' = load_data(df)
    /\ columns' = [i \in 1..Len(columns) |-> CleanColumnName(columns[i])]
    /\ call' = "load_data"
    /\ UNCHANGED <<args, out>>

\* The same lines applied to the frame they produced; out keeps the frame and the
\* header as they were after the first cleaning.
CleanAgain ==
    /\ call = "load_data"
    /\ out' = [df |-> df, columns |-> columns]
    /\ df' = load_data(df)
    /\ columns' = [i \in 1..Len(columns) |-> CleanColumnName(columns[i])]
    /\ call' = "clean_again"
    /\ UNCHANGED args

InitClean ==
    /\ df \in Frames(CleanRawRows, MaxRows)
    /\ columns \in {<<h>> : h \in HeaderLabels}
    /\ call = "read_csv"
    /\ args = Idle
    /\ out = Idle

NextClean == LoadData \/ CleanAgain

SpecClean == InitClean /\ [][NextClean]_vars

\* C8: cleaning is idempotent: the cleaning steps applied to an already cleaned frame
\* leave the column names, the mapped labels and the derived columns unchanged.
C8_CleaningIdempotent ==
    call = "clean_again" => (df = out.df /\ columns = out.columns)


(***************************************************************************)
(* pages/3_accident_visualizations.py: the day/night classifiers           *)
(***************************************************************************)

\* The longest hour-range string the model enumerates character by character.
MaxHourLen == 4

Digits == <<"0", "1", "2", "3", "4", "5", "6", "7", "8", "9">>

IsDigit(c) == \E i \in 1..Len(Digits) : Digits[i] = c

DigitValue(c) == (CHOOSE i \in 1..Len(Digits) : Digits[i] = c) - 1

RECURSIVE DecimalValue(_)
DecimalValue(s) ==
    IF s = <<>> THEN 0
    ELSE 10 * DecimalValue(SubSeq(s, 1, Len(s) - 1)) + DigitValue(s[Len(s)])

\* Python's int(str): surrounding whitespace is dropped, then an optional sign and one
\* or more decimal digits; anything else raises ValueError (ok is FALSE).
PyInt(s) ==
    LET t == Strip(s)
        signed == t # <<>> /\ Head(t) \in {"-", "+"}
        body == IF signed THEN Tail(t) ELSE t
        ok == body # <<>> /\ \A i \in 1..Len(body) : IsDigit(body[i])
    IN  [ok |-> ok,
         value |-> IF ~ok THEN 0
                   ELSE IF signed /\ Head(t) = "-" THEN 0 - DecimalValue(body)
                   ELSE DecimalValue(body)]

\* str.split(sep)[0]: the text before the first sep, the whole text if there is none.
RECURSIVE BeforeFirst(_, _)
BeforeFirst(s, sep) ==
    IF s = <<>> \/ Head(s) = sep THEN <<>>
    ELSE <<Head(s)>> \o BeforeFirst(Tail(s), sep)

\* pandas' missing value in a column whose cells are sequences of characters.
NaNChars == <<NaN>>

\* 6 <= start_hour < 20
PeriodOfStrict(start_hour) == IF 6 < start_hour /\ start_hour < 20 THEN "Day" ELSE "Night"

PeriodOf(start_hour) == IF 6 <= start_hour /\ start_hour < 20 THEN "Day" ELSE "Night"

\* classify_period_hr (accidents_by_user_type_chart)
classify_period_hr(hr_str) ==
    IF hr_str = NaNChars THEN "Unknown"
    ELSE LET start_hour_str == BeforeFirst(BeforeFirst(hr_str, "-"), ":")
             start_hour == PyInt(start_hour_str)
         IN  IF start_hour.ok THEN PeriodOf(start_hour.value) ELSE "Unknown"

\* classify_period_severity_hr (accident_severity_month_chart)
classify_period_severity_hr(hr_str) ==
    IF hr_str = NaNChars THEN "Unknown"
    ELSE LET start_hour_prefix == BeforeFirst(hr_str, ":")
             start_hour == PyInt(start_hour_prefix)
         IN  IF start_hour.ok THEN PeriodOf(start_hour.value) ELSE "Unknown"

\* Hour-range strings as sequences of characters.
HR_00 == <<"0", "0", ":", "0", "0", ":", "0", "0", "-", "0", "3", ":", "5", "9", ":", "0", "0">>
HR_04 == <<"0", "4", ":", "0", "0", ":", "0", "0", "-", "0", "7", ":", "5", "9", ":", "0", "0">>
HR_08 == <<"0", "8", ":", "0", "0", ":", "0", "0", "-", "1", "1", ":", "5", "9", ":", "0", "0">>
HR_12 == <<"1", "2", ":", "0", "0", ":", "0", "0", "-", "1", "5", ":", "5", "9", ":", "0", "0">>
HR_16 == <<"1", "6", ":", "0", "0", ":", "0", "0", "-", "1", "9", ":", "5", "9", ":", "0", "0">>
HR_20 == <<"2", "0", ":", "0", "0", ":", "0", "0", "-", "2", "3", ":", "5", "9", ":", "0", "0">>
HR_2030 == <<"2", "0", ":", "3", "0", ":", "0", "0", "-", "2", "3", ":", "5", "9", ":", "0", "0">>
HR_0915 == <<"0", "9", ":", "1", "5", ":", "0", "0", "-", "1", "1", ":", "5", "9", ":", "0", "0">>
HR_garbage == <<"g", "a", "r", "b", "a", "g", "e">>

HourChars == {"0", "1", "2", "5", "6", "9", ":", "-", " ", "g"}

\* The values of an HR_ACCDN cell the classifiers are applied to.
HourStrings ==
    UNION {[1..n -> HourChars] : n \in 0..MaxHourLen}
    \cup {HR_00, HR_04, HR_08, HR_12, HR_16, HR_20, HR_2030, HR_0915, HR_garbage, NaNChars}

ClassifyPeriodHr ==
    /\ call = "cell"
    /\ call' = "classify_period_hr"
    /\ out' = classify_period_hr(args)
    /\ UNCHANGED <<df, columns, args>>

ClassifyPeriodSeverityHr ==
    /\ call = "cell"
    /\ call' = "classify_period_severity_hr"
    /\ out' = classify_period_severity_hr(args)
    /\ UNCHANGED <<df, columns, args>>

InitClassify ==
    /\ df = Idle
    /\ columns = Idle
    /\ call = "cell"
    /\ args \in HourStrings
    /\ out = Idle

NextClassify == ClassifyPeriodHr \/ ClassifyPeriodSeverityHr

SpecClassify == InitClassify /\ [][NextClassify]_vars

\* The leading hour field of an hour-range string: the text before its first ':' or
\* '-', the start of the range's first time.
LeadingField(s) ==
    LET seps == {i \in 1..Len(s) : s[i] \in {":", "-"}}
    IN  IF seps = {} THEN s
        ELSE SubSeq(s, 1, (CHOOSE i \in seps : \A j \in seps : i <= j) - 1)

\* The class the claim gives an HR_ACCDN value.
ExpectedPeriod(hr) ==
    IF hr = NaNChars \/ ~PyInt(LeadingField(hr)).ok THEN "Unknown"
    ELSE IF PyInt(LeadingField(hr)).value \in 6..19 THEN "Day"
    ELSE "Night"

\* C9: both classifiers map every hour-range value by its leading hour: 6 to 19
\* inclusive is Day, every other parseable leading hour is Night, and a missing or
\* unparseable value is Unknown.
C9_ClassifyByLeadingHour ==
    call \in {"classify_period_hr", "classify_period_severity_hr"} =>
        out = ExpectedPeriod(args)


(***************************************************************************)
(* pages/bar_chart.py and pages/utils/bar_chart_region.py: the stacked bar *)
(* chart of accident counts by time unit and accident type                 *)
(***************************************************************************)

GRAVITE_TRANSLATION ==
    ("Mortel ou grave" :> "Fatal or Serious") @@
    ("Léger" :> "Minor") @@
    ("Dommages matériels seulement" :> "Property Damage Only") @@
    ("Dommages matériels inférieurs au seuil de rapportage" :> "Below Reporting Threshold")

ordered_types ==
    <<"Fatal or Serious", "Minor", "Property Damage Only", "Below Reporting Threshold">>

\* Rows of the frame handed to draw: a base row and rows that differ from it in one
\* column.
DrawBaseRow ==
    [AN |-> 2018, MS_ACCDN |-> "3", JR_SEMN_ACCDN |-> "SEM",
     HR_ACCDN |-> "08:00:00-11:59:00", GRAVITE |-> "Mortel ou grave",
     REG_ADM |-> "Montréal (06)"]

DrawRows ==
    {DrawBaseRow,
     [DrawBaseRow EXCEPT !["AN"] = 2019],
     [DrawBaseRow EXCEPT !["JR_SEMN_ACCDN"] = "FDS"],
     [DrawBaseRow EXCEPT !["GRAVITE"] = "Léger"],
     [DrawBaseRow EXCEPT !["GRAVITE"] = "Autre"],
     [DrawBaseRow EXCEPT !["REG_ADM"] = "Laval (13)"]}

Granularities == {"year", "month", "daytype", "quarter_day", "week"}

Modes == {"count", "percent"}

Regions == {None, "Montréal (06)"}

\* str.zfill(2)
ZFill2(s) == IF Len(s) < 2 THEN "0" \o s ELSE s

\* The time_unit cell of a row for a granularity.
TimeUnit(r, granularity) ==
    CASE granularity = "year" -> ToString(r["AN"])
      [] granularity = "month" -> ToString(r["AN"]) \o "-" \o ZFill2(r["MS_ACCDN"])
      [] granularity = "daytype" -> r["JR_SEMN_ACCDN"]
      [] granularity = "quarter_day" -> r["HR_ACCDN"]
      [] OTHER -> ToString(r["AN"])

\* df[type_col] = df[type_col].map(GRAVITE_TRANSLATION); df['time_unit'] = ...
WithTimeUnit(d, granularity) ==
    [i \in 1..Len(d) |->
        [c \in DOMAIN d[i] \cup {"time_unit"} |->
            CASE c = "GRAVITE" -> Map(d[i]["GRAVITE"], GRAVITE_TRANSLATION)
              [] c = "time_unit" -> TimeUnit(d[i], granularity)
              [] OTHER -> d[i][c]]]

\* df.groupby(['time_unit', type_col]).size().reset_index(name='count'): one row for
\* each pair of keys that occurs, rows with a missing key left out.
GroupCounts(d) ==
    {[time_unit |-> k[1], GRAVITE |-> k[2],
      count |-> Cardinality({i \in 1..Len(d) :
                                d[i]["time_unit"] = k[1] /\ d[i]["GRAVITE"] = k[2]})] :
        k \in {<<d[i]["time_unit"], d[i]["GRAVITE"]>> :
                  i \in {j \in 1..Len(d) :
                            d[j]["time_unit"] # NaN /\ d[j]["GRAVITE"] # NaN}}}

\* The frame get_aggregated_counts works on: the region's rows, a new frame, when a
\* region is given, else the caller's frame itself.
RegionRows(d, region) ==
    IF region # None THEN SelectSeq(d, LAMBDA r : r["REG_ADM"] = region) ELSE d

\* bar_chart_region.get_aggregated_counts
get_aggregated_counts_region(d, region, granularity) ==
    GroupCounts(WithTimeUnit(RegionRows(d, region), granularity))

\* bar_chart.get_aggregated_counts (works on df.copy())
get_aggregated_counts(d, granularity) == GroupCounts(WithTimeUnit(d, granularity))

RECURSIVE SumCounts(_)
SumCounts(rows) ==
    IF rows = {} THEN 0
    ELSE LET r == CHOOSE x \in rows : TRUE
         IN  r.count + SumCounts(rows \ {r})

\* The sum of the counts of the whole table.
TotalOverall(grouped, time_unit) == SumCounts(grouped)

\* grouped.groupby('time_unit')['count'].transform('sum')
TotalPerTime(grouped, time_unit) ==
    SumCounts({g \in grouped : g.time_unit = time_unit})

\* grouped['value']: a fraction num/den, 100 * count / total in percent mode and the
\* count itself otherwise.
Value(grouped, g, mode) ==
    IF mode = "percent"
    THEN [num |-> 100 * g.count, den |-> TotalPerTime(grouped, g.time_unit)]
    ELSE [num |-> g.count, den |-> 1]

\* The bars of draw: for each type of ordered_types with rows, a trace of the type's
\* values by time unit.
Bars(grouped, mode) ==
    LET subset(t) == {g \in grouped : g.GRAVITE = t}
        trace(t) == [name |-> t,
                     y |-> [x \in {g.time_unit : g \in subset(t)} |->
                              Value(grouped,
                                    CHOOSE g \in subset(t) : g.time_unit = x, mode)]]
        shown == SelectSeq(ordered_types, LAMBDA t : subset(t) # {})
    IN  [i \in 1..Len(shown) |-> trace(shown[i])]

\* init_figure of bar_chart and of bar_chart_region: a figure with a title and no bar.
init_figure == [title |-> "Accident Frequency in Quebec", yaxis_title |-> "", data |-> <<>>]

init_figure_region ==
    [title |-> "Accident frequency in Quebec", yaxis_title |-> "", data |-> <<>>]

\* draw of bar_chart and of bar_chart_region: the figure given, with the bars of the
\* data in place of its traces and the axis title of the mode.
draw(fig, data, mode, granularity) ==
    [fig EXCEPT !.data = Bars(get_aggregated_counts(data, granularity), mode),
                !.yaxis_title = IF mode = "count" THEN "Accident Frequency"
                                ELSE "Accidents (%)"]

draw_region(fig, data, mode, granularity, region) ==
    [fig EXCEPT !.data = Bars(get_aggregated_counts_region(data, region, granularity),
                              mode),
                !.yaxis_title = IF mode = "count" THEN "Accident Frequency"
                                ELSE "Accidents (%)"]

\* bar_chart.draw
Draw ==
    /\ call \in {"session", "draw", "draw_region"}
    /\ \E mode \in Modes, granularity \in Granularities :
          /\ args' = [mode |-> mode, granularity |-> granularity, region |-> None]
          /\ out' = draw(init_figure, df, mode, granularity)
    /\ call' = "draw"
    /\ UNCHANGED <<df, columns>>

\* bar_chart_region.draw: with no region the caller's frame itself gets the translated
\* type column and the time_unit column.
DrawRegion ==
    /\ call \in {"session", "draw", "draw_region"}
    /\ \E mode \in Modes, granularity \in Granularities, region \in Regions :
          /\ args' = [mode |-> mode, granularity |-> granularity, region |-> region]
          /\ out' = draw_region(init_figure_region, df, mode, granularity, region)
          /\ df' = IF region = None THEN WithTimeUnit(df, granularity) ELSE df
    /\ call' = "draw_region"
    /\ UNCHANGED columns

InitDraw ==
    /\ df \in Frames(DrawRows, MaxRows) \cup {<<>>}
    /\ columns = Idle
    /\ call = "session"
    /\ args = Idle
    /\ out = Idle

NextDraw == Draw \/ DrawRegion

SpecDraw == InitDraw /\ [][NextDraw]_vars

Drawn == call \in {"draw", "draw_region"}

\* The time units some trace of the figure plots.
PlottedUnits == UNION {DOMAIN out.data[i].y : i \in 1..Len(out.data)}

RECURSIVE SumNum(_, _)
SumNum(traces, x) ==
    IF traces = <<>> THEN 0
    ELSE (IF x \in DOMAIN Head(traces).y THEN Head(traces).y[x].num ELSE 0)
         + SumNum(Tail(traces), x)

\* C5: aggregation never drops a category of a fixed enumeration: the figure of a
\* non-empty frame has a trace for each of the four severity labels, and each trace has
\* a value for each bucket of a finite bucketing domain (weekday and weekend).
C5_NoCategoryDropped ==
    (Drawn /\ Len(df) > 0) =>
        /\ {out.data[i].name : i \in 1..Len(out.data)} = Range(ordered_types)
        /\ args.granularity = "daytype" =>
              \A i \in 1..Len(out.data) : {"SEM", "FDS"} \subseteq DOMAIN out.data[i].y

\* C7: in percent mode the values plotted for a time bucket with records counted in
\* it are fractions of one positive total, the bucket's count, and sum to 100; no
\* value has a zero denominator, whatever the frame.
C7_PercentSumsTo100 ==
    (Drawn /\ args.mode = "percent") =>
        /\ \A i \in 1..Len(out.data) :
              \A x \in DOMAIN out.data[i].y : out.data[i].y[x].den > 0
        /\ \A x \in PlottedUnits :
              \E total \in 1..MaxRows :
                  /\ \A i \in 1..Len(out.data) :
                        x \in DOMAIN out.data[i].y => out.data[i].y[x].den = total
                  /\ SumNum(out.data, x) = 100 * total

\* C7's case: a percent chart with a time bucket shared by two severity traces.
C7_Witness ==
    /\ Drawn
    /\ args.mode = "percent"
    /\ \E x \in PlottedUnits : \E i, j \in 1..Len(out.data) :
          i # j /\ x \in DOMAIN out.data[i].y /\ x \in DOMAIN out.data[j].y


(***************************************************************************)
(* pages/3_accident_visualizations.py: loading and the four charts         *)
(***************************************************************************)

gravite_en_mapping ==
    ("Dommages matériels seulement" :> "Material Damage") @@
    ("Dommages matériels inférieurs au seuil de rapportage" :> "Low Damage") @@
    ("Léger" :> "Minor") @@
    ("Mortel ou grave" :> "Severe")

jr_semn_mapping == ("SEM" :> "Weekday") @@ ("FDS" :> "Weekend")

\* A cell of a nullable integer column (Int64) holding n is <<n>>; pd.NA is <<>>.
NA == <<>>

\* pd.to_numeric(cell, errors='coerce').astype("Int64") of a cell of digits, of other
\* text or of no value.
to_numeric(cell) ==
    IF cell = NaNChars THEN NA
    ELSE LET n == PyInt(cell) IN IF n.ok THEN <<n.value>> ELSE NA

\* The length of the match of \s*\(\d+\) at the start of s, 0 if there is none.
MatchRegionCode(s) ==
    LET rest == LStrip(s)
        spaces == Len(s) - Len(rest)
        inner == IF rest = <<>> THEN <<>> ELSE Tail(rest)
        digits == IF \E i \in 1..Len(inner) : ~IsDigit(inner[i])
                  THEN (CHOOSE i \in 1..Len(inner) :
                            /\ ~IsDigit(inner[i])
                            /\ \A j \in 1..(i - 1) : IsDigit(inner[j])) - 1
                  ELSE Len(inner)
    IN  IF /\ rest # <<>>
           /\ Head(rest) = "("
           /\ digits >= 1
           /\ digits < Len(inner)
           /\ inner[digits + 1] = ")"
        THEN spaces + digits + 2
        ELSE 0

\* str.replace(r"\s*\(\d+\)", "", regex=True) on a cell; a missing cell stays missing.
RECURSIVE RemoveRegionCode(_)
RemoveRegionCode(s) ==
    IF s = NaNChars \/ s = <<>> THEN s
    ELSE LET n == MatchRegionCode(s)
         IN  IF n > 0 THEN RemoveRegionCode(SubSeq(s, n + 1, Len(s)))
             ELSE <<Head(s)>> \o RemoveRegionCode(Tail(s))

\* load_and_clean_data, lines 22-41, on the rows read from the file.
load_and_clean_data(raw) ==
    [i \in 1..Len(raw) |->
        [c \in DOMAIN raw[i] \cup {"GRAVITE_EN", "JR_SEMN_ACCDN_EN", "REG_ADM_CLEAN"} |->
            CASE c = "GRAVITE_EN" -> Replace(raw[i]["GRAVITE"], gravite_en_mapping)
              [] c = "JR_SEMN_ACCDN_EN" -> Replace(raw[i]["JR_SEMN_ACCDN"], jr_semn_mapping)
              [] c = "MS_ACCDN" -> to_numeric(raw[i]["MS_ACCDN"])
              [] c = "REG_ADM_CLEAN" -> RemoveRegionCode(raw[i]["REG_ADM"])
              [] OTHER -> raw[i][c]]]

usager_cols ==
    ("IND_AUTO_CAMION_LEGER" :> "Light Vehicles") @@
    ("IND_VEH_LOURD" :> "Heavy Vehicles") @@
    ("IND_MOTO_CYCLO" :> "Motorcycles") @@
    ("IND_VELO" :> "Bicycles") @@
    ("IND_PIETON" :> "Pedestrians")

\* The order of usager_cols.keys()
usager_keys ==
    <<"IND_AUTO_CAMION_LEGER", "IND_VEH_LOURD", "IND_MOTO_CYCLO", "IND_VELO", "IND_PIETON">>

month_labels ==
    <<"Jan", "Feb", "Mar", "Apr", "May", "Jun", "Jul", "Aug", "Sep", "Oct", "Nov", "Dec">>

\* range(1, 13)
month_range == [m \in 1..12 |-> m]

weektype_order == <<"Weekday", "Weekend">>

hour_order == <<HR_00, HR_04, HR_08, HR_12, HR_16, HR_20>>

severity_order == <<"Severe", "Minor", "Material Damage", "Low Damage">>

REG_Laval == <<"L", "a", "v", "a", "l", " ", "(", "1", "3", ")">>
REG_Estrie == <<"E", "s", "t", "r", "i", "e", " ", "(", "0", "5", ")">>
MS_3 == <<"3">>
MS_11 == <<"1", "1">>
MS_13 == <<"1", "3">>
MS_text == <<"x">>

\* Rows of data_fusionnee.csv: a base row and rows that differ from it in one column.
ChartBaseRow ==
    [GRAVITE |-> "Mortel ou grave", JR_SEMN_ACCDN |-> "SEM", MS_ACCDN |-> MS_3,
     HR_ACCDN |-> HR_08, REG_ADM |-> REG_Laval,
     IND_AUTO_CAMION_LEGER |-> "O", IND_VEH_LOURD |-> "N", IND_MOTO_CYCLO |-> "N",
     IND_VELO |-> "N", IND_PIETON |-> "N"]

ChartRawValues ==
    [GRAVITE |-> {"Léger", "Autre", NaN},
     JR_SEMN_ACCDN |-> {"FDS", NaN},
     MS_ACCDN |-> {MS_11, MS_13, MS_text, NaNChars},
     HR_ACCDN |-> {HR_20, HR_0915, NaNChars},
     REG_ADM |-> {REG_Estrie, NaNChars},
     IND_PIETON |-> {"O"}]

ChartRawRows ==
    {ChartBaseRow} \cup
    {[ChartBaseRow EXCEPT ![c] = v] :
        <<c, v>> \in UNION {{c} \X ChartRawValues[c] : c \in DOMAIN ChartRawValues}}

\* A go.Figure with no trace and a title only.
Placeholder(title) == [title |-> title, data |-> <<>>]

\* The counts of the keys of order that counts holds, with no fill.
NoReindex(counts, order) ==
    LET kept == SelectSeq(order, LAMBDA k : k \in DOMAIN counts)
    IN  [i \in 1..Len(kept) |-> counts[kept[i]]]

\* Series.reindex(order, fill_value=0) of counts indexed by key: one value for each
\* key of order, in that order, 0 for a key that counts does not hold.
Reindex(counts, order) ==
    [i \in 1..Len(order) |-> IF order[i] \in DOMAIN counts THEN counts[order[i]] ELSE 0]

\* The key of a row in a grouping column: the number itself for the month.
GroupKey(r, col) == IF col = "MS_ACCDN" THEN r[col][1] ELSE r[col]

\* groupby([col, 'GRAVITE_EN']).size() for one severity: the count of each key found.
CountsBy(d, col, grav) ==
    LET rows == {i \in 1..Len(d) : d[i]["GRAVITE_EN"] = grav}
    IN  [k \in {GroupKey(d[i], col) : i \in rows} |->
            Cardinality({i \in rows : GroupKey(d[i], col) = k})]

\* df.replace({'O': 1, 'N': 0}) on an indicator cell
IndicatorValue(v) == IF v = "O" THEN 1 ELSE IF v = "N" THEN 0 ELSE v

RECURSIVE SumSeq(_)
SumSeq(s) == IF s = <<>> THEN 0 ELSE Head(s) + SumSeq(Tail(s))

\* sort_values(ascending=False) of the counts by user type: the positions of
\* usager_keys from the highest count to the lowest, equal counts in their order.
SortedDescending(counts) ==
    LET before(i, j) == counts[i] > counts[j] \/ (counts[i] = counts[j] /\ i < j)
        rank(i) == 1 + Cardinality({j \in DOMAIN counts : before(j, i)})
    IN  [p \in DOMAIN counts |-> CHOOSE i \in DOMAIN counts : rank(i) = p]

accidents_by_user_type_chart(df_data, period_type) ==
    LET subset == SelectSeq(df_data,
                            LAMBDA r : classify_period_hr(r["HR_ACCDN"]) = period_type)
        counts == [k \in 1..Len(usager_keys) |->
                      SumSeq([i \in 1..Len(subset) |->
                                 IndicatorValue(subset[i][usager_keys[k]])])]
        sorted == SortedDescending(counts)
    IN  IF subset = <<>>
        THEN Placeholder("No data available for User Type")
        ELSE [title |-> "Number of Accidents by User Type",
              data |-> <<[name |-> period_type,
                          x |-> [p \in DOMAIN sorted |-> usager_cols[usager_keys[sorted[p]]]],
                          y |-> [p \in DOMAIN sorted |-> counts[sorted[p]]]]>>]

accident_severity_month_chart(df_data, period_type) ==
    LET df_clean == SelectSeq(df_data,
                        LAMBDA r : r["GRAVITE_EN"] # NaN /\ r["MS_ACCDN"] # NA)
        grouped == SelectSeq(df_clean,
                        LAMBDA r : classify_period_severity_hr(r["HR_ACCDN"]) = period_type)
    IN  IF grouped = <<>>
        THEN Placeholder("No data available for Monthly Severity")
        ELSE [title |-> "Monthly Accident Severity",
              data |-> [g \in 1..Len(severity_order) |->
                          [name |-> severity_order[g],
                           x |-> month_labels,
                           y |-> Reindex(CountsBy(grouped, "MS_ACCDN", severity_order[g]),
                                         month_range)]]]

\* The pivot of severe accidents: for each region the counts of the months found, the
\* months not found added with 0, the months in ascending order.
generate_severe_accidents_heatmap_chart(df_data) ==
    LET df_grave == SelectSeq(df_data,
                        LAMBDA r : /\ r["GRAVITE_EN"] = "Severe"
                                   /\ r["REG_ADM_CLEAN"] # NaNChars
                                   /\ r["MS_ACCDN"] # NA
                                   /\ r["MS_ACCDN"][1] >= 1
                                   /\ r["MS_ACCDN"][1] <= 12)
        regions == {df_grave[i]["REG_ADM_CLEAN"] : i \in 1..Len(df_grave)}
        size(reg, m) == Cardinality({i \in 1..Len(df_grave) :
                                        /\ df_grave[i]["REG_ADM_CLEAN"] = reg
                                        /\ df_grave[i]["MS_ACCDN"][1] = m})
    IN  IF df_grave = <<>>
        THEN Placeholder("No severe accident data to display for heatmap.")
        ELSE [title |-> "Severe Accidents by Region and Month (Hover for Details)",
              data |-> <<[x |-> month_labels,
                          y |-> regions,
                          z |-> [reg \in regions |-> [m \in 1..12 |-> size(reg, m)]]]>>]

\* The column and the order of the buckets of a granularity.
GranularityColumn ==
    ("Month" :> "MS_ACCDN") @@ ("Week Type" :> "JR_SEMN_ACCDN_EN") @@
    ("Hour Range" :> "HR_ACCDN")

GranularityLabels(granularity_type) ==
    CASE granularity_type = "Month" -> month_labels
      [] granularity_type = "Week Type" -> weektype_order
      [] granularity_type = "Hour Range" -> hour_order

GranularityOrder(granularity_type) ==
    IF granularity_type = "Month" THEN month_range
    ELSE GranularityLabels(granularity_type)

generate_accident_severity_bar_chart_by_time(df_data, granularity_type) ==
    LET df_clean == SelectSeq(df_data,
                        LAMBDA r : /\ r["GRAVITE_EN"] # NaN
                                   /\ r["MS_ACCDN"] # NA
                                   /\ r["JR_SEMN_ACCDN_EN"] # NaN
                                   /\ r["HR_ACCDN"] # NaNChars)
        known == granularity_type \in DOMAIN GranularityColumn
        \* plot_data, a column for each severity found
        plot_columns == IF known THEN {df_clean[i]["GRAVITE_EN"] : i \in 1..Len(df_clean)}
                        ELSE {}
        plot_data(grav) == Reindex(CountsBy(df_clean, GranularityColumn[granularity_type],
                                            grav),
                                   GranularityOrder(granularity_type))
        x_labels == GranularityLabels(granularity_type)
    IN  IF plot_columns = {}
        THEN Placeholder("No data for " \o granularity_type)
        ELSE [title |-> "Accident Severity by " \o granularity_type,
              data |-> [g \in 1..Len(severity_order) |->
                          [name |-> severity_order[g],
                           x |-> x_labels,
                           y |-> IF severity_order[g] \in plot_columns
                                 THEN plot_data(severity_order[g])
                                 ELSE [i \in 1..Len(x_labels) |-> 0]]]]

Periods == {"Day", "Night"}

GranularityTypes == {"Month", "Week Type", "Hour Range", "Year"}

\* df = load_and_clean_data()
LoadAndCleanData ==
    /\ call = "read_csv"
    /\ df' = load_and_clean_data(df)
    /\ call' = "load_and_clean_data"
    /\ UNCHANGED <<columns, args, out>>

UserTypeChart ==
    /\ call = "load_and_clean_data"
    /\ \E period_type \in Periods :
          /\ args' = period_type
          /\ out' = accidents_by_user_type_chart(df, period_type)
    /\ call' = "accidents_by_user_type_chart"
    /\ UNCHANGED <<df, columns>>

SeverityMonthChart ==
    /\ call = "load_and_clean_data"
    /\ \E period_type \in Periods :
          /\ args' = period_type
          /\ out' = accident_severity_month_chart(df, period_type)
    /\ call' = "accident_severity_month_chart"
    /\ UNCHANGED <<df, columns>>

HeatmapChart ==
    /\ call = "load_and_clean_data"
    /\ args' = Idle
    /\ out' = generate_severe_accidents_heatmap_chart(df)
    /\ call' = "generate_severe_accidents_heatmap_chart"
    /\ UNCHANGED <<df, columns>>

SeverityBarChartByTime ==
    /\ call = "load_and_clean_data"
    /\ \E granularity_type \in GranularityTypes :
          /\ args' = granularity_type
          /\ out' = generate_accident_severity_bar_chart_by_time(df, granularity_type)
    /\ call' = "generate_accident_severity_bar_chart_by_time"
    /\ UNCHANGED <<df, columns>>

InitChart ==
    /\ df \in Frames(ChartRawRows, MaxRows) \cup {<<>>}
    /\ columns = Idle
    /\ call = "read_csv"
    /\ args = Idle
    /\ out = Idle

NextChart ==
    \/ LoadAndCleanData
    \/ UserTypeChart
    \/ SeverityMonthChart
    \/ HeatmapChart
    \/ SeverityBarChartByTime

SpecChart == InitChart /\ [][NextChart]_vars


\* The month series of the figure in out: the y of each trace of the two bar charts,
\* the row of each region of the heatmap.
MonthChart ==
    \/ call \in {"accident_severity_month_chart", "generate_severe_accidents_heatmap_chart"}
    \/ call = "generate_accident_severity_bar_chart_by_time" /\ args = "Month"

MonthSeries ==
    IF call = "generate_severe_accidents_heatmap_chart"
    THEN UNION {{out.data[i].z[reg] : reg \in DOMAIN out.data[i].z} : i \in 1..Len(out.data)}
    ELSE {out.data[i].y : i \in 1..Len(out.data)}

TwelveBuckets(series) == DOMAIN series = 1..12 /\ \A m \in 1..12 : series[m] >= 0

\* The records of the frame that reach the month aggregation of the chart in out.
ReachMonths ==
    CASE call = "accident_severity_month_chart" ->
            SelectSeq(df, LAMBDA r : /\ r["GRAVITE_EN"] # NaN
                                     /\ r["MS_ACCDN"] # NA
                                     /\ classify_period_severity_hr(r["HR_ACCDN"]) = args)
      [] call = "generate_severe_accidents_heatmap_chart" ->
            SelectSeq(df, LAMBDA r : /\ r["GRAVITE_EN"] = "Severe"
                                     /\ r["REG_ADM_CLEAN"] # NaNChars
                                     /\ r["MS_ACCDN"] # NA
                                     /\ r["MS_ACCDN"][1] \in 1..12)
      [] OTHER ->
            SelectSeq(df, LAMBDA r : /\ r["GRAVITE_EN"] # NaN
                                     /\ r["MS_ACCDN"] # NA
                                     /\ r["JR_SEMN_ACCDN_EN"] # NaN
                                     /\ r["HR_ACCDN"] # NaNChars)

Counted == SumSeq([i \in 1..Len(out.data) |-> SumSeq(out.data[i].y)])

\* The records that have the fields the chart in out buckets by: a severity of the
\* chart, and the chart's period or a bucket of its granularity.
HaveFields ==
    LET severe(r) == r["GRAVITE_EN"] \in Range(severity_order)
        month(r) == r["MS_ACCDN"] # NA /\ r["MS_ACCDN"][1] \in 1..12
    IN  CASE call = "accident_severity_month_chart" ->
                SelectSeq(df, LAMBDA r : /\ severe(r)
                                         /\ month(r)
                                         /\ ExpectedPeriod(r["HR_ACCDN"]) = args)
          [] args = "Month" -> SelectSeq(df, LAMBDA r : severe(r) /\ month(r))
          [] args = "Week Type" ->
                SelectSeq(df, LAMBDA r : /\ severe(r)
                                         /\ r["JR_SEMN_ACCDN_EN"] \in Range(weektype_order))
          [] OTHER ->
                SelectSeq(df, LAMBDA r : /\ severe(r)
                                         /\ r["HR_ACCDN"] \in Range(hour_order))

\* C10: a record with a missing or unparseable field is left out of the buckets that
\* need the field only: the month chart of a period counts every record of that period
\* that has a severity and a month, so a record of unknown period is in neither chart,
\* and the chart by month, by week type or by hour range counts every record that has a
\* severity and the bucketing field, whatever its other fields.
C10_ExcludedOnlyWhereFieldNeeded ==
    (/\ call \in {"accident_severity_month_chart",
                  "generate_accident_severity_bar_chart_by_time"}
     /\ args # "Year") =>
        Counted = Len(HaveFields)


(***************************************************************************)
(* The loaders of the pages and of the chart modules, run against a file   *)
(* that may be missing or may lack a column, and the page scripts that     *)
(* render what was loaded                                                  *)
(***************************************************************************)

\* A row of data_fusionnee.csv with the columns the pages read; the road codes are
\* integers, a lighting or surface code is <<n>> and a missing one is NA.
LoadBaseRow ==
    ChartBaseRow @@
    [AN |-> 2018, CD_CATEG_ROUTE |-> 11, CD_CONFG_ROUTE |-> 1,
     CD_ECLRM |-> <<1>>, CD_ETAT_SURFC |-> <<11>>]

LoadRawRows ==
    {LoadBaseRow,
     [LoadBaseRow EXCEPT !["GRAVITE"] = "Léger"],
     [LoadBaseRow EXCEPT !["GRAVITE"] = "Autre"],
     [LoadBaseRow EXCEPT !["GRAVITE"] = NaN],
     [LoadBaseRow EXCEPT !["MS_ACCDN"] = MS_text],
     [LoadBaseRow EXCEPT !["MS_ACCDN"] = MS_11],
     [LoadBaseRow EXCEPT !["CD_CATEG_ROUTE"] = 12],
     [LoadBaseRow EXCEPT !["CD_CONFG_ROUTE"] = 2],
     [LoadBaseRow EXCEPT !["CD_ECLRM"] = <<3>>],
     [LoadBaseRow EXCEPT !["CD_ECLRM"] = <<9>>],
     [LoadBaseRow EXCEPT !["CD_ECLRM"] = NA],
     [LoadBaseRow EXCEPT !["CD_ETAT_SURFC"] = <<20>>],
     [LoadBaseRow EXCEPT !["REG_ADM"] = REG_Estrie]}

AllColumns == DOMAIN LoadBaseRow

\* The headers a file may have: all columns, no severity column, no region column, the
\* region column under a longer name.
ColumnSets ==
    {AllColumns,
     AllColumns \ {"GRAVITE"},
     AllColumns \ {"REG_ADM"},
     (AllColumns \ {"REG_ADM"}) \cup {"NOM_REG_ADM"}}

\* The row as it stands in a file with the header cols.
FileRow(r, cols) ==
    [c \in cols |-> IF c = "NOM_REG_ADM" THEN r["REG_ADM"] ELSE r[c]]

Loaders ==
    {"3_accident_visualizations", "4_road_severity", "5_polar_grave_surface",
     "bar_chart", "map_chart"}

\* What a loader leaves: how it ended ("loaded", "st.stop" after st.error, "raised"
\* when the exception leaves the function), the frame, the st.error messages and the
\* table returned.
Loaded(d, messages) ==
    [call |-> "loaded", df |-> d, messages |-> messages, table |-> Idle]

Stopped(d, message) ==
    [call |-> "st.stop", df |-> d, messages |-> <<message>>, table |-> Idle]

Raised(d, error) ==
    [call |-> "raised", df |-> d, messages |-> <<>>, table |-> error]

Returned(d, table) ==
    [call |-> "loaded", df |-> d, messages |-> <<>>, table |-> table]

\* 3_accident_visualizations.load_and_clean_data with its try / except: a missing
\* file, and a missing column read at lines 23, 31, 37 or 43, stop the script.
LoadAccidentVisualizations(file, cols, raw) ==
    IF ~file
    THEN Stopped(raw, "Error: 'assets/data_fusionnee.csv' not found.")
    ELSE IF {"GRAVITE", "JR_SEMN_ACCDN", "MS_ACCDN", "REG_ADM"} \subseteq cols
    THEN Loaded(load_and_clean_data(raw), <<>>)
    ELSE Stopped(raw, "An error occurred while loading or preprocessing data")

\* 4_road_severity.load_and_clean_data: without the GRAVITE column an error is shown
\* and GRAVITE_EN is 'Unknown' in every row; the road codes become text.
road_load_and_clean_data(cols, raw) ==
    [i \in 1..Len(raw) |->
        [c \in DOMAIN raw[i] \cup {"GRAVITE_EN"} |->
            CASE c = "GRAVITE_EN" ->
                    IF "GRAVITE" \in cols
                    THEN Replace(raw[i]["GRAVITE"], gravite_en_mapping)
                    ELSE "Unknown"
              [] c \in {"CD_CATEG_ROUTE", "CD_CONFG_ROUTE"} -> ToString(raw[i][c])
              [] OTHER -> raw[i][c]]]

LoadRoadSeverity(file, cols, raw) ==
    IF ~file
    THEN Stopped(raw, "Error: 'assets/data_fusionnee.csv' not found.")
    ELSE Loaded(road_load_and_clean_data(cols, raw),
                IF "GRAVITE" \in cols THEN <<>>
                ELSE <<"Column 'GRAVITE' not found. Severity mapping skipped.">>)

month_to_season(month) ==
    IF month \in {1, 2, 3} THEN "Winter"
    ELSE IF month \in {4, 5, 6} THEN "Spring"
    ELSE IF month \in {7, 8, 9} THEN "Summer"
    ELSE "Autumn"

\* 5_polar_grave_surface.load_data, lines 17-31, when every month is a number.
polar_load_data(cols, raw) ==
    [i \in 1..Len(raw) |->
        [c \in DOMAIN raw[i] \cup {"SEASON", "Severity"} |->
            CASE c = "MS_ACCDN" -> to_numeric(raw[i]["MS_ACCDN"])[1]
              [] c = "SEASON" -> month_to_season(to_numeric(raw[i]["MS_ACCDN"])[1])
              [] c = "Severity" ->
                    IF "GRAVITE" \notin cols THEN "Unknown"
                    ELSE IF raw[i]["GRAVITE"] = "Mortel ou grave" THEN "Severe"
                    ELSE "Other"
              [] OTHER -> raw[i][c]]]

\* 5_polar_grave_surface.load_data with its try / except: astype(int) raises on a
\* month that to_numeric coerced to NaN, and the except clause stops the script.
LoadPolar(file, cols, raw) ==
    IF ~file
    THEN Stopped(raw, "Error: 'assets/data_fusionnee.csv' not found.")
    ELSE IF \E i \in 1..Len(raw) : to_numeric(raw[i]["MS_ACCDN"]) = NA
    THEN Stopped(raw, "An error occurred while loading data")
    ELSE Loaded(polar_load_data(cols, raw),
                IF "GRAVITE" \in cols THEN <<>>
                ELSE <<"Column 'GRAVITE' not found in data.">>)

\* df.groupby([time_col, type_col]).size() after the translation of the types: a row
\* for each year and translated type found, with the number of its records.
CountsByTypeAndTime(d) ==
    LET type(i) == Map(d[i]["GRAVITE"], GRAVITE_TRANSLATION)
        rows == {i \in 1..Len(d) : type(i) # NaN}
    IN  {[AN |-> k[1], GRAVITE |-> k[2],
          count |-> Cardinality({i \in rows : d[i]["AN"] = k[1] /\ type(i) = k[2]})] :
            k \in {<<d[i]["AN"], type(i)>> : i \in rows}}

\* bar_chart.get_counts_by_type_and_time(df): line 26 rebinds df to the frame read from
\* the file, with no try, so the frame passed in (data) is never read.
get_counts_by_type_and_time(data, file, cols, raw) ==
    IF ~file THEN Raised(raw, "FileNotFoundError")
    ELSE IF "GRAVITE" \notin cols THEN Raised(raw, "KeyError")
    ELSE Returned(raw, CountsByTypeAndTime(raw))

\* The frames a caller passes to get_counts_by_type_and_time.
PassedFrames ==
    Frames({LoadBaseRow, [LoadBaseRow EXCEPT !["GRAVITE"] = "Léger"]}, MaxRows)
    \cup {<<>>}

\* REGION_COORDS for the regions of the rows, in tenths of a degree.
REGION_COORDS ==
    (REG_Estrie :> <<455, -719>>) @@ (REG_Laval :> <<456, -738>>)

\* 'REG_ADM' in col, for the column names of the headers.
HasRegAdm(col) == col \in {"REG_ADM", "NOM_REG_ADM"}

\* map_chart.prepare_region_data: the file is read with no try; a column whose name
\* holds REG_ADM is taken as REG_ADM, and with no such column df['REG_ADM'] raises.
prepare_region_data(file, cols, raw) ==
    IF ~file THEN Raised(raw, "FileNotFoundError")
    ELSE IF ~\E c \in cols : HasRegAdm(c) THEN Raised(raw, "KeyError")
    ELSE LET col == IF "REG_ADM" \in cols THEN "REG_ADM" ELSE "NOM_REG_ADM"
             regions == {raw[i][col] : i \in 1..Len(raw)} \ {NaNChars}
             coords(r) == IF r \in DOMAIN REGION_COORDS THEN REGION_COORDS[r]
                          ELSE <<None, None>>
         IN  Returned(raw,
                 {[region |-> r,
                   nb_accidents |-> Cardinality({i \in 1..Len(raw) : raw[i][col] = r}),
                   latitude |-> coords(r)[1],
                   longitude |-> coords(r)[2]] : r \in regions})


\* 4_road_severity.create_sankey_chart

severity_color_map ==
    ("Severe" :> "darkred") @@ ("Minor" :> "lightgreen") @@
    ("Material Damage" :> "steelblue") @@ ("Low Damage" :> "lightgrey") @@
    ("Other" :> "gray")

\* dict.get(key, default)
Get(mapping, key, default) == IF key \in DOMAIN mapping THEN mapping[key] ELSE default

\* The texts of the road and severity columns in the order sorted() gives them.
TextOrder ==
    <<"1", "11", "12", "2", "Autre", "Low Damage", "Material Damage", "Minor",
      "Severe", "Unknown">>

\* sorted(values)
Sorted(values) == SelectSeq(TextOrder, LAMBDA v : v \in values)

\* The color of a node: of its severity, lightgray for a road label.
NodeColor(label) == Get(severity_color_map, label, "lightgray")

\* The color of the link of a flow, taken from the node the link starts at.
LinkColorOfSource(road_label, grav_label) == NodeColor(road_label)

\* links_colors.append(severity_color_map.get(grav_label, "gray"))
LinkColor(road_label, grav_label) == Get(severity_color_map, grav_label, "gray")

create_sankey_chart(data_frame, chart_type) ==
    LET col == IF chart_type = "Road Category" THEN "CD_CATEG_ROUTE" ELSE "CD_CONFG_ROUTE"
        roads == Sorted(Unique(data_frame, col))
        severities_in_data == Unique(data_frame, "GRAVITE_EN")
        present_severities_ordered ==
            SelectSeq(severity_order, LAMBDA v : v \in severities_in_data)
        nodes_labels == roads \o present_severities_ordered
        label_to_index(label) ==
            (CHOOSE i \in 1..Len(nodes_labels) :
                /\ nodes_labels[i] = label
                /\ \A j \in 1..Len(nodes_labels) : nodes_labels[j] = label => j <= i) - 1
        nodes_colors == [i \in 1..Len(nodes_labels) |-> NodeColor(nodes_labels[i])]
        size(road, grav) ==
            Cardinality({i \in 1..Len(data_frame) :
                            data_frame[i][col] = road /\ data_frame[i]["GRAVITE_EN"] = grav})
        gravs == Sorted(severities_in_data)
        \* the rows of flows_data, by road label and then by severity label
        keys == [k \in 1..(Len(roads) * Len(gravs)) |->
                    <<roads[((k - 1) \div Len(gravs)) + 1],
                      gravs[((k - 1) % Len(gravs)) + 1]>>]
        flows_data == SelectSeq(keys, LAMBDA k : size(k[1], k[2]) > 0)
        links == SelectSeq(flows_data,
                           LAMBDA k : k[1] \in Range(nodes_labels)
                                      /\ k[2] \in Range(nodes_labels))
    IN  IF data_frame = <<>>
        THEN Placeholder("No data to display for this chart.")
        ELSE IF roads = <<>> \/ present_severities_ordered = <<>>
        THEN Placeholder("Missing data for " \o chart_type \o " chart.")
        ELSE IF links = <<>>
        THEN Placeholder("No valid links generated for " \o chart_type \o " Sankey diagram.")
        ELSE [title |-> "Accident Severity: " \o chart_type \o " -> Severity",
              data |-> <<[node |-> [label |-> nodes_labels, color |-> nodes_colors],
                          link |-> [source |-> [k \in 1..Len(links) |->
                                                   label_to_index(links[k][1])],
                                    target |-> [k \in 1..Len(links) |->
                                                   label_to_index(links[k][2])],
                                    value |-> [k \in 1..Len(links) |->
                                                  size(links[k][1], links[k][2])],
                                    color |-> [k \in 1..Len(links) |->
                                                  LinkColor(links[k][1], links[k][2])]]]>>]

\* 5_polar_grave_surface, lines 45-163

surface_state_codes == <<11, 12, 13, 14, 15, 16, 17, 18, 19, 99>>

lighting_labels ==
    <<"Daylight and clear", "Daylight and twilight", "Night and lit road",
      "Night and unlit road">>

\* sorted(df['SEASON'].dropna().unique().tolist())
seasons(d) ==
    SelectSeq(<<"Autumn", "Spring", "Summer", "Winter">>,
              LAMBDA v : \E i \in 1..Len(d) : d[i]["SEASON"] = v)

\* season_df.groupby(['CD_ECLRM', 'CD_ETAT_SURFC']).size(): the number of records with
\* the two codes.
GroupSize(season_df, lighting_code, surface) ==
    Cardinality({i \in 1..Len(season_df) :
                    /\ season_df[i]["CD_ECLRM"] = <<lighting_code>>
                    /\ season_df[i]["CD_ETAT_SURFC"] = <<surface>>})

\* Traces for the lighting types found in the data only.
TracesOfFoundLighting(season_df) ==
    SelectSeq([lighting_code \in 1..Len(lighting_labels) |->
                  [name |-> lighting_labels[lighting_code],
                   r |-> [k \in 1..Len(surface_state_codes) |->
                            GroupSize(season_df, lighting_code, surface_state_codes[k])]]],
              LAMBDA trace : \E i \in 1..Len(season_df) :
                                \E lighting_code \in 1..Len(lighting_labels) :
                                    /\ trace.name = lighting_labels[lighting_code]
                                    /\ season_df[i]["CD_ECLRM"] = <<lighting_code>>
                                    /\ season_df[i]["CD_ETAT_SURFC"] # NA)

\* The Barpolar traces, one for each entry of lighting_labels in its order: the counts
\* of the lighting type reindexed over surface_state_codes with fill 0, or the dummy
\* trace of zeros when the type is not in the data.
BarpolarTraces(season_df) ==
    [lighting_code \in 1..Len(lighting_labels) |->
        [name |-> lighting_labels[lighting_code],
         r |-> [k \in 1..Len(surface_state_codes) |->
                  GroupSize(season_df, lighting_code, surface_state_codes[k])]]]

\* The polar chart of the severe accidents of a season: the figures plotted, none when
\* the season has no severe accident or none with both codes present (groupby drops a
\* record with a missing key), and the st.info texts.
polar_chart(d, selected_season) ==
    LET season_df == SelectSeq(d, LAMBDA r : /\ r["SEASON"] = selected_season
                                              /\ r["Severity"] = "Severe")
        grouped_counts == {i \in 1..Len(season_df) :
                              /\ season_df[i]["CD_ECLRM"] # NA
                              /\ season_df[i]["CD_ETAT_SURFC"] # NA}
    IN  IF season_df = <<>>
        THEN [figures |-> <<>>,
              info |-> <<"No severe accident data available for the selected season.">>]
        ELSE IF grouped_counts = {}
        THEN [figures |-> <<>>,
              info |-> <<"No data available to create the polar chart for the selected "
                            \o "season and filters.">>]
        ELSE [figures |->
                <<[title |-> "Polar Bar Chart - Number of Severe Accidents ("
                                \o selected_season \o ")",
                   data |-> BarpolarTraces(season_df)]>>,
              info |-> <<>>]

\* What the user has been shown: st.error messages, st.info texts, the figures
\* plotted, and the table a chart module's loader returned.
Shown(result) ==
    [messages |-> result.messages, info |-> <<>>, figures |-> <<>>,
     table |-> result.table]

RunAccidentVisualizationsLoader ==
    /\ call = "script"
    /\ args.loader = "3_accident_visualizations"
    /\ LET result == LoadAccidentVisualizations(args.file, columns, df)
       IN  call' = result.call /\ df' = result.df /\ out' = Shown(result)
    /\ UNCHANGED <<columns, args>>

RunRoadSeverityLoader ==
    /\ call = "script"
    /\ args.loader = "4_road_severity"
    /\ LET result == LoadRoadSeverity(args.file, columns, df)
       IN  call' = result.call /\ df' = result.df /\ out' = Shown(result)
    /\ UNCHANGED <<columns, args>>

RunPolarLoader ==
    /\ call = "script"
    /\ args.loader = "5_polar_grave_surface"
    /\ LET result == LoadPolar(args.file, columns, df)
       IN  call' = result.call /\ df' = result.df /\ out' = Shown(result)
    /\ UNCHANGED <<columns, args>>

GetCountsByTypeAndTime ==
    /\ call = "script"
    /\ args.loader = "bar_chart"
    /\ \E data \in PassedFrames :
          LET result == get_counts_by_type_and_time(data, args.file, columns, df)
          IN  /\ call' = result.call
              /\ df' = result.df
              /\ args' = [loader |-> args.loader, file |-> args.file, df |-> data]
              /\ out' = Shown(result)
    /\ UNCHANGED columns

PrepareRegionData ==
    /\ call = "script"
    /\ args.loader = "map_chart"
    /\ LET result == prepare_region_data(args.file, columns, df)
       IN  call' = result.call /\ df' = result.df /\ out' = Shown(result)
    /\ UNCHANGED <<columns, args>>

\* 3_accident_visualizations, lines 413-453: the four tabs.
RenderAccidentVisualizations ==
    /\ call = "loaded"
    /\ args.loader = "3_accident_visualizations"
    /\ \E period_type_user \in Periods, period_type_severity \in Periods,
          granularity_type_bar \in {"Month", "Week Type", "Hour Range"} :
          out' = [out EXCEPT !.figures =
                    <<accidents_by_user_type_chart(df, period_type_user),
                      accident_severity_month_chart(df, period_type_severity),
                      generate_severe_accidents_heatmap_chart(df),
                      generate_accident_severity_bar_chart_by_time(df,
                                                                  granularity_type_bar)>>]
    /\ call' = "rendered"
    /\ UNCHANGED <<df, columns, args>>

\* 4_road_severity, lines 206-215
RenderRoadSeverity ==
    /\ call = "loaded"
    /\ args.loader = "4_road_severity"
    /\ \E chart_selection \in {"Road Category", "Road Configuration"} :
          /\ args' = [loader |-> args.loader, file |-> args.file,
                      chart_selection |-> chart_selection]
          /\ out' = [out EXCEPT !.figures = <<create_sankey_chart(df, chart_selection)>>]
    /\ call' = "rendered"
    /\ UNCHANGED <<df, columns>>

\* 5_polar_grave_surface, lines 66-163: the selectbox offers the seasons found and
\* gives None when there is none.
RenderPolar ==
    /\ call = "loaded"
    /\ args.loader = "5_polar_grave_surface"
    /\ \E selected_season \in IF seasons(df) = <<>> THEN {None} ELSE Range(seasons(df)) :
          LET chart == polar_chart(df, selected_season)
          IN  out' = [out EXCEPT !.figures = chart.figures, !.info = chart.info]
    /\ call' = "rendered"
    /\ UNCHANGED <<df, columns, args>>

InitLoad ==
    /\ args \in [loader : Loaders, file : BOOLEAN]
    /\ columns \in IF args.file THEN ColumnSets ELSE {{}}
    /\ df \in IF args.file
              THEN {[i \in DOMAIN d |-> FileRow(d[i], columns)] :
                       d \in Frames(LoadRawRows, MaxRows) \cup {<<>>}}
              ELSE {<<>>}
    /\ call = "script"
    /\ out = [messages |-> <<>>, info |-> <<>>, figures |-> <<>>, table |-> Idle]

NextLoad ==
    \/ RunAccidentVisualizationsLoader
    \/ RunRoadSeverityLoader
    \/ RunPolarLoader
    \/ GetCountsByTypeAndTime
    \/ PrepareRegionData
    \/ RenderAccidentVisualizations
    \/ RenderRoadSeverity
    \/ RenderPolar

SpecLoad == InitLoad /\ [][NextLoad]_vars


LoadedOrRendered == call \in {"loaded", "rendered"}

\* C11: after cleaning, the severity field GRAVITE_EN of every record is one of
\* Severe, Minor, Material Damage, Low Damage, whatever the value of the source
\* severity column; for the loaders of the visualization and the road severity pages.
C11_SeverityInEnumeration ==
    (/\ LoadedOrRendered
     /\ args.loader \in {"3_accident_visualizations", "4_road_severity"}
     /\ "GRAVITE" \in columns) =>
        \A i \in 1..Len(df) : df[i]["GRAVITE_EN"] \in Range(severity_order)

\* C12: coercing the month never aborts the load: run on a file with every column,
\* the loader returns, with every record of the file, the month of a record being its
\* number, or the missing marker when its text is no number.
C12_CoercionNeverAborts ==
    [][(/\ call = "script"
        /\ args.file
        /\ columns = AllColumns
        /\ args.loader \in {"3_accident_visualizations", "5_polar_grave_surface"}) =>
           /\ call' = "loaded"
           /\ Len(df') = Len(df)
           /\ \A i \in 1..Len(df) :
                 LET month == to_numeric(df[i]["MS_ACCDN"])
                 IN  IF args.loader = "5_polar_grave_surface" /\ month # NA
                     THEN df'[i]["MS_ACCDN"] = month[1]
                     ELSE df'[i]["MS_ACCDN"] = month]_vars

\* C13: when the file has no GRAVITE column, every loader that maps severity reports
\* an error and the script stops: nothing is loaded, so no record gets a severity
\* value, and no figure is plotted.
C13_MissingSeverityAborts ==
    (/\ call # "script"
     /\ args.file
     /\ "GRAVITE" \notin columns
     /\ args.loader \in {"3_accident_visualizations", "4_road_severity",
                         "5_polar_grave_surface"}) =>
        /\ call = "st.stop"
        /\ out.messages # <<>>
        /\ out.figures = <<>>

\* C14: when the file has no REG_ADM column, loading completes with no error and no
\* stop, and the page goes on to plot its figures.
C14_MissingRegionDegrades ==
    (/\ call # "script"
     /\ args.file
     /\ "REG_ADM" \notin columns
     /\ args.loader \in {"3_accident_visualizations", "map_chart"}) =>
        /\ LoadedOrRendered
        /\ out.messages = <<>>

\* C15: when the file is missing, every loader shows a message and stops the render:
\* no figure is plotted and no exception leaves the loader.
C15_MissingFileStops ==
    (call # "script" /\ ~args.file) =>
        /\ call = "st.stop"
        /\ out.messages # <<>>
        /\ out.figures = <<>>

\* The Sankey figures plotted by the road severity page.
Sankeys ==
    IF call = "rendered" /\ args.loader = "4_road_severity"
    THEN {out.figures[i].data[1] :
             i \in {j \in 1..Len(out.figures) : out.figures[j].data # <<>>}}
    ELSE {}

\* C20: in the Sankey diagram of either chart type, every link ends at a severity node
\* and has the color of that node.
C20_LinkColorOfDestination ==
    \A sankey \in Sankeys :
        \A k \in 1..Len(sankey.link.source) :
            /\ sankey.node.label[sankey.link.target[k] + 1] \in Range(severity_order)
            /\ sankey.link.color[k] = sankey.node.color[sankey.link.target[k] + 1]

\* C20's case: a Sankey diagram with links to two severity nodes, of two colors, none
\* the color of the node the link starts at.
C20_Witness ==
    \E sankey \in Sankeys :
        /\ \E k, l \in 1..Len(sankey.link.source) :
              sankey.link.color[k] # sankey.link.color[l]
        /\ \A k \in 1..Len(sankey.link.source) :
              sankey.link.color[k] # sankey.node.color[sankey.link.source[k] + 1]

(***************************************************************************)
(* The stacked bar chart again: empty frames, the caller's frame, repeats   *)
(***************************************************************************)

\* The titles of the figures that say there is nothing to plot.
NoDataTitles ==
    {"No data available for User Type", "No data available for Monthly Severity",
     "No severe accident data to display for heatmap.",
     "No data to display for this chart."} \cup
    {"No data for " \o g : g \in GranularityTypes}

\* C16: an empty result is no error: draw of an empty frame gives a placeholder, a
\* figure with no trace whose title says that there is no data.
C16_EmptyGivesPlaceholder ==
    (Drawn /\ df = <<>>) => (out.data = <<>> /\ out.title \in NoDataTitles)

\* C18: the dataset is read-only: no call of draw changes the frame it is given.
C18_DatasetReadOnly == [][df' = df]_vars

\* C19: draw is a pure transform: called again with the same mode, granularity and
\* region on the same session frame, it returns the same figure.
C19_RepeatedDrawSameBars ==
    [][(Drawn /\ call' = call /\ args' = args) => out' = out]_vars

(***************************************************************************)
(* The dropdown options of the dashboard                                   *)
(***************************************************************************)

\* C17: every category appears in the filter dropdowns whatever the counts: for every
\* year range and severity selection, the options of each dimension filter are all the
\* categories of the dimension in the loaded data, those with no record in the
\* selection included.
C17_OptionsHoldEveryCategory ==
    call = "update_filter_options" =>
        \A dim \in OptionDims : Range(out[dim]) = Unique(df, FilterColumn[dim])


(***************************************************************************)
(* pages/3_accident_visualizations.py: the two day/night classifiers side  *)
(* by side                                                                 *)
(***************************************************************************)

\* C21: for every hour-range value, well-formed, missing or malformed,
\* classify_period_hr and classify_period_severity_hr return the same class: the class
\* one of them has returned for a value is the class the other returns for it.
C21_ClassifiersAgree ==
    /\ call = "classify_period_hr" => out = classify_period_severity_hr(args)
    /\ call = "classify_period_severity_hr" => out = classify_period_hr(args)


(***************************************************************************)
(* pages/bar_chart.py: the counts by type and time                         *)
(***************************************************************************)

\* C22: get_counts_by_type_and_time computes its counts from the frame passed as df:
\* the table returned holds, for each (year, translated type) pair of that frame, the
\* number of its records with the pair.
C22_CountsOfThePassedFrame ==
    (args.loader = "bar_chart" /\ call = "loaded") =>
        out.table = CountsByTypeAndTime(args.df)


(***************************************************************************)
(* pages/5_polar_grave_surface.py: the traces of the polar chart           *)
(***************************************************************************)

\* The polar charts the page has plotted.
PolarCharts ==
    IF args.loader = "5_polar_grave_surface" /\ call = "rendered"
    THEN Range(out.figures) ELSE {}

\* C23: whenever the polar chart is drawn for a season, it has exactly one trace for
\* each of the four lighting types, in the order of the codes 1..4, and each trace has
\* exactly one radial value >= 0 for each of the ten surface-state codes, in their
\* fixed order: a lighting type or surface state with no severe accident has zeros.
C23_FourTracesOfTenValues ==
    \A fig \in PolarCharts :
        /\ [i \in DOMAIN fig.data |-> fig.data[i].name] = lighting_labels
        /\ Len(lighting_labels) = 4
        /\ Len(surface_state_codes) = 10
        /\ \A i \in DOMAIN fig.data :
              /\ DOMAIN fig.data[i].r = DOMAIN surface_state_codes
              /\ \A k \in DOMAIN fig.data[i].r :
                    /\ fig.data[i].r[k] >= 0
                    /\ fig.data[i].r[k] =
                          Cardinality({j \in DOMAIN df :
                              /\ fig.title = "Polar Bar Chart - Number of Severe Accidents ("
                                                \o df[j]["SEASON"] \o ")"
                              /\ df[j]["Severity"] = "Severe"
                              /\ df[j]["CD_ECLRM"] = <<i>>
                              /\ df[j]["CD_ETAT_SURFC"] = <<surface_state_codes[k]>>})

\* C23: a polar chart with a lighting type that has severe accidents and one that has
\* none, drawn with zeros.
C23_Witness ==
    \E fig \in PolarCharts :
        /\ \E i \in DOMAIN fig.data : \E k \in DOMAIN fig.data[i].r : fig.data[i].r[k] > 0
        /\ \E i \in DOMAIN fig.data : \A k \in DOMAIN fig.data[i].r : fig.data[i].r[k] = 0


(***************************************************************************)
(* pages/dashboard.py: the Dash page as the browser drives it, and         *)
(* dashboard.py show_dashboard beside it. args holds the values of the     *)
(* input components, out what the callbacks last wrote to their outputs.   *)
(***************************************************************************)

\* The rows of the source file behind the page: a base row with no road defect and no
\* construction zone recorded, rows that differ from it in the weather, the surface or the severity, and
\* a row of another year with another weather.
DashBaseRow == [BaseRow EXCEPT !["CD_ASPCT_ROUTE"] = NaN, !["CD_ZON_TRAVX_ROUTR"] = NaN]

DashRows ==
    {DashBaseRow,
     [DashBaseRow EXCEPT !["CD_COND_METEO"] = "12"],
     [DashBaseRow EXCEPT !["CD_ETAT_SURFC"] = "12"],
     [DashBaseRow EXCEPT !["GRAVITE"] = "Léger"],
     [DashBaseRow EXCEPT !["AN"] = 2019, !["CD_COND_METEO"] = "12"]}

\* The values of dashboard-dropdown.
DashViews ==
    {"weather", "surface", "lighting", "environment", "defects", "construction",
     "heatmap", "covid"}

\* The view of show_dashboard that a value of dashboard-dropdown stands for.
DashboardOption ==
    [weather |-> "Weather", surface |-> "Road Surface", lighting |-> "Lighting",
     environment |-> "Environment", defects |-> "Road Defects",
     construction |-> "Construction Zones", heatmap |-> "Weather vs Surface Heatmap",
     covid |-> "Before / After COVID-19"]

\* toggle_filters: the 'disabled' property written to each filter dropdown.
toggle_filters(selected) ==
    [gravite |-> selected # "covid",
     meteo |-> selected \in {"weather", "heatmap"},
     surface |-> selected \in {"surface", "heatmap"},
     env |-> selected = "environment",
     road |-> selected = "defects",
     const |-> selected = "construction"]

\* gravite_options: df['GRAVITE'].unique()
gravite_options == {df[i]["GRAVITE"] : i \in 1..Len(df)}

\* d.groupby('AN').size(): the number of records of each year found.
GroupByYear(d) ==
    [y \in {d[i]["AN"] : i \in 1..Len(d)} |->
        Cardinality({i \in 1..Len(d) : d[i]["AN"] = y})]

\* A frame narrowed by the filters, taken for the COVID series.
FilteredFrame(d, dff) == dff

\* The frame the COVID series are computed from: the module's df, not dff.
CovidFrame(d, dff) == d

\* The two Scatter traces of the COVID view.
CovidTraces(d) ==
    <<[name |-> "Total", y |-> GroupByYear(d)],
      [name |-> "Graves",
       y |-> GroupByYear(SelectSeq(d, LAMBDA r : r["GRAVITE"] = "Grave"))]>>

\* The x column of each histogram view, and the titles.
GraphColumn ==
    [weather |-> "CD_COND_METEO", surface |-> "CD_ETAT_SURFC",
     lighting |-> "Lighting_Label", environment |-> "Environment_Label",
     defects |-> "CD_ASPCT_ROUTE", construction |-> "CD_ZON_TRAVX_ROUTR",
     heatmap |-> "CD_COND_METEO", covid |-> "AN"]

GraphTitle ==
    [weather |-> "Accidents by Weather", surface |-> "Accidents by Road Surface",
     lighting |-> "Accidents by Lighting", environment |-> "Accidents by Environment",
     defects |-> "Accidents by Road Defects",
     construction |-> "Construction Zone Accidents",
     heatmap |-> "Severe Accidents Heatmap", covid |-> "COVID Impact on Accidents"]

\* The figure of a view: px.histogram / px.density_heatmap over the filtered frame, or
\* the two COVID traces.
ViewFigure(selected, d, dff) ==
    [title |-> GraphTitle[selected],
     x |-> GraphColumn[selected],
     data_frame |->
        IF selected = "covid" THEN <<>>
        ELSE IF selected = "heatmap" THEN SelectSeq(dff, LAMBDA r : r["GRAVITE"] = "Grave")
        ELSE dff,
     data |-> IF selected = "covid" THEN CovidTraces(CovidFrame(d, dff)) ELSE <<>>]

\* update_graph, lines 150-177: the children of graph-output; dff is kept beside it.
graph_output(a) ==
    [dff |-> update_graph(a), figure |-> ViewFigure(a.selected, df, update_graph(a))]

\* show_dashboard, lines 82-123: the figure handed to st.plotly_chart.
st_plotly_chart(a) ==
    [dff |-> show_dashboard(a),
     figure |-> ViewFigure(
        CHOOSE selected \in DashViews : DashboardOption[selected] = a.dashboard_option,
        df, show_dashboard(a))]

\* The values of the input components in the layout.
LayoutValues ==
    [selected |-> "weather",
     annee_range |-> <<CHOOSE lo \in {df[i]["AN"] : i \in 1..Len(df)} :
                            \A i \in 1..Len(df) : lo <= df[i]["AN"],
                       CHOOSE hi \in {df[i]["AN"] : i \in 1..Len(df)} :
                            \A i \in 1..Len(df) : hi >= df[i]["AN"]>>,
     gravite |-> None, meteo |-> None, surface |-> None, env |-> None, road |-> None,
     const |-> None]

\* The page is served: every callback runs once on the layout's values.
ServeLayout ==
    /\ call = "load"
    /\ call' = "dash"
    /\ args' = LayoutValues
    /\ out' = [disabled |-> toggle_filters(LayoutValues.selected),
               options |-> update_filter_options(LayoutValues.annee_range,
                                                 LayoutValues.gravite),
               graph |-> graph_output(LayoutValues)]
    /\ UNCHANGED <<df, columns>>

\* The user picks a view: toggle_filters and update_graph run.
SelectView ==
    /\ call = "dash"
    /\ \E selected \in DashViews \ {args.selected} :
          /\ args' = [args EXCEPT !.selected = selected]
          /\ out' = [out EXCEPT !.disabled = toggle_filters(selected),
                                !.graph = graph_output(args')]
    /\ UNCHANGED <<df, columns, call>>

\* The user moves the year slider: update_filter_options and update_graph run.
SlideYears ==
    /\ call = "dash"
    /\ \E annee_range \in YearRanges \ {args.annee_range} :
          /\ args' = [args EXCEPT !.annee_range = annee_range]
          /\ out' = [out EXCEPT !.options = update_filter_options(annee_range,
                                                                  args.gravite),
                                !.graph = graph_output(args')]
    /\ UNCHANGED <<df, columns, call>>

\* The user picks or clears a severity, when the dropdown is not disabled:
\* update_filter_options and update_graph run.
SelectSeverity ==
    /\ call = "dash"
    /\ ~out.disabled.gravite
    /\ \E gravite \in ({None} \cup gravite_options) \ {args.gravite} :
          /\ args' = [args EXCEPT !.gravite = gravite]
          /\ out' = [out EXCEPT !.options = update_filter_options(args.annee_range,
                                                                  gravite),
                                !.graph = graph_output(args')]
    /\ UNCHANGED <<df, columns, call>>

\* The user picks one of the options offered by a filter dropdown, or clears it, when
\* the dropdown is not disabled: update_graph runs.
SelectFilter ==
    /\ call = "dash"
    /\ \E dim \in OptionDims :
          /\ ~out.disabled[dim]
          /\ \E v \in ({None} \cup Range(out.options[dim])) \ {args[dim]} :
                /\ args' = [args EXCEPT ![dim] = v]
                /\ out' = [out EXCEPT !.graph = graph_output(args')]
    /\ UNCHANGED <<df, columns, call>>

\* A run of the Streamlit script with the widget values the user has chosen.
RunShowDashboard ==
    /\ call = "load"
    /\ \E a \in StArgs :
          /\ call' = "show_dashboard"
          /\ args' = a
          /\ out' = [graph |-> st_plotly_chart(a)]
    /\ UNCHANGED <<df, columns>>

InitDash ==
    /\ df \in {load_data(raw) : raw \in Frames(DashRows, MaxRows)}
    /\ columns = Idle
    /\ call = "load"
    /\ args = Idle
    /\ out = Idle

NextDash ==
    \/ ServeLayout
    \/ SelectView
    \/ SlideYears
    \/ SelectSeverity
    \/ SelectFilter
    \/ RunShowDashboard

SpecDash == InitDash /\ [][NextDash]_vars

\* C24: toggle_filters enables each dimension filter exactly for the views it applies
\* to, as show_dashboard offers them: weather for Weather and Heatmap, surface for
\* Road Surface and Heatmap, environment, road defect and construction for their own
\* view, and severity for every view except the COVID view.
C24_EnabledWhereItApplies ==
    call = "dash" =>
        /\ out.disabled.gravite = (args.selected = "covid")
        /\ \A dim \in OptionDims :
              ~out.disabled[dim] <=>
                  dim \in Range(ViewFilters(DashboardOption[args.selected]))


\* C25: after any sequence of view changes, year-range changes and filter selections,
\* every non-empty filter value that update_graph applies is a member of the option
\* list that update_filter_options last produced for that filter.
C25_AppliedValuesAreOffered ==
    call = "dash" =>
        \A dim \in OptionDims :
            Truthy(args[dim]) => args[dim] \in Range(out.options[dim])

\* C26: when every dimension value selected is one of the options offered for the
\* year range and severity, the filtered dataset used for the chart holds at least
\* one record.
C26_OfferedValuesKeepARecord ==
    (/\ call = "dash"
     /\ \E dim \in OptionDims : args[dim] # None
     /\ \A dim \in OptionDims :
           args[dim] # None => args[dim] \in Range(out.options[dim]))
        => out.graph.dff # <<>>

\* The COVID view is on screen.
CovidView ==
    \/ call = "dash" /\ args.selected = "covid"
    \/ call = "show_dashboard" /\ args.dashboard_option = "Before / After COVID-19"

\* C27: in both dashboards the Before / After COVID-19 view plots the per-year count of
\* all records and the per-year count of the 'Grave' records of the whole dataset,
\* whatever the year range, the severity and the five dimension filters are.
C27_CovidViewIgnoresFilters ==
    CovidView => out.graph.figure.data = CovidTraces(df)

\* C27: the COVID view of the Dash page while the filters leave out a part of the
\* dataset that has a severe record.
C27_Witness ==
    /\ call = "dash"
    /\ args.selected = "covid"
    /\ out.graph.dff # df
    /\ \E i \in 1..Len(df) : df[i]["GRAVITE"] = "Grave"
    /\ out.graph.figure.data = CovidTraces(df)


(***************************************************************************)
(* pages/3_accident_visualizations.py: the records behind the bars of the  *)
(* chart by time                                                           *)
(***************************************************************************)

\* The records of the frame whose severity and whose field for the granularity in args
\* are both present.
HaveSeverityAndField ==
    SelectSeq(df, LAMBDA r :
        /\ r["GRAVITE_EN"] # NaN
        /\ CASE args = "Month" -> r["MS_ACCDN"] # NA
             [] args = "Week Type" -> r["JR_SEMN_ACCDN_EN"] # NaN
             [] OTHER -> r["HR_ACCDN"] # NaNChars)

\* C28: generate_accident_severity_bar_chart_by_time conserves records: for Month, Week
\* Type and Hour Range, the bar heights of the four severity traces sum to the number
\* of input records whose severity and whose field for that granularity are both
\* present.
C28_BarsConserveRecords ==
    (/\ call = "generate_accident_severity_bar_chart_by_time"
     /\ args \in {"Month", "Week Type", "Hour Range"}) =>
        Counted = Len(HaveSeverityAndField)


(***************************************************************************)
(* pages/4_road_severity.py: the flows of the Sankey diagram               *)
(***************************************************************************)

\* The road column of the chart the page has rendered.
SankeyColumn ==
    IF args.chart_selection = "Road Category" THEN "CD_CATEG_ROUTE" ELSE "CD_CONFG_ROUTE"

\* The records of the loaded frame with a road value and a severity.
RoadAndSeverity ==
    {i \in 1..Len(df) : df[i][SankeyColumn] # NaN /\ df[i]["GRAVITE_EN"] # NaN}

\* The links of the figure the page has rendered, none for a placeholder: the labels
\* of the two ends, the two node indexes and the value.
SankeyLinks ==
    LET fig == out.figures[1]
    IN  IF fig.data = <<>> THEN {}
        ELSE {[road |-> fig.data[1].node.label[fig.data[1].link.source[k] + 1],
               grav |-> fig.data[1].node.label[fig.data[1].link.target[k] + 1],
               source |-> fig.data[1].link.source[k],
               target |-> fig.data[1].link.target[k],
               value |-> fig.data[1].link.value[k],
               k |-> k] : k \in 1..Len(fig.data[1].link.source)}

RECURSIVE SumValues(_)
SumValues(links) ==
    IF links = {} THEN 0
    ELSE LET l == CHOOSE l \in links : TRUE
         IN  l.value + SumValues(links \ {l})

\* C29: create_sankey_chart conserves flows: for both chart types and a non-empty
\* frame, every (road value, severity) pair with a record has exactly one link, whose
\* value is the pair's record count, from a road node to a severity node; the link
\* values sum to the number of records with both fields, and no node index belongs to
\* both a road label and a severity label.
C29_SankeyConservesFlows ==
    (call = "rendered" /\ args.loader = "4_road_severity" /\ df # <<>>) =>
        /\ \A i \in RoadAndSeverity :
              \E l \in SankeyLinks :
                  /\ l.road = df[i][SankeyColumn]
                  /\ l.grav = df[i]["GRAVITE_EN"]
                  /\ l.value = Cardinality({j \in RoadAndSeverity :
                                               /\ df[j][SankeyColumn] = l.road
                                               /\ df[j]["GRAVITE_EN"] = l.grav})
                  /\ \A m \in SankeyLinks :
                        (m.road = l.road /\ m.grav = l.grav) => m = l
        /\ \A l \in SankeyLinks :
              /\ \E i \in RoadAndSeverity : l.road = df[i][SankeyColumn]
              /\ \E i \in RoadAndSeverity : l.grav = df[i]["GRAVITE_EN"]
              /\ \A m \in SankeyLinks : l.source # m.target
        /\ SumValues(SankeyLinks) = Cardinality(RoadAndSeverity)

====
